---- MODULE Spec2Model ----
(***************************************************************************)
(* The interactive worksheet viewer (frontend/app/workspace/[id]/page.tsx) *)
(* as a state machine.  The React state cells of the Workspace component   *)
(* are the variables; every event handler, effect and promise continuation *)
(* is one action.  Array indices are 0-based as in the source; the helper  *)
(* At reads a TLA+ sequence with a 0-based index.  The library dashboard   *)
(* (frontend/app/dashboard/page.tsx) is modelled the same way, under its   *)
(* own specification SpecDashboard.                                        *)
(***************************************************************************)
EXTENDS Integers, Sequences, FiniteSets, TLC

\* ------------------------------------------------------------------ bounds
\* at most MaxLoads document loads (the mount plus changes of the id)
MaxLoads == 2
\* at most MaxClicks block clicks
MaxClicks == 2
\* polygons of at most MaxPoints points are given to getBlockStyle
MaxPoints == 4
\* at most MaxRequests requests (uploads, View requests and notes
\* generations together) are started in the dashboard
MaxRequests == 3

\* ------------------------------------------------------------ input domain
\* the document ids the route can carry
Ids == {"w1", "w2"}

\* a quadrilateral bounding_box, and a second one
BoxQ == << <<10, 10>>, <<50, 10>>, <<50, 40>>, <<10, 40>> >>
BoxR == << <<0, 40>>, <<50, 40>>, <<50, 40>>, <<0, 40>> >>

\* two pages the backend may return (PageData without the image): PageA
\* has three blocks, the last with an empty text, and PageB two; the first
\* block of PageB has an empty text, the second an empty point list
PageA == [dimensions |-> <<100, 100>>,
          text_blocks |-> <<[bounding_box |-> BoxQ, text |-> "x+1"],
                            [bounding_box |-> BoxR, text |-> "2y"],
                            [bounding_box |-> BoxQ, text |-> ""]>>]
PageB == [dimensions |-> <<100, 50>>,
          text_blocks |-> <<[bounding_box |-> BoxR, text |-> ""],
                            [bounding_box |-> <<>>, text |-> "x+1"]>>]

\* the page lists a get_file response may carry (FileData.data),
\* the empty list included
PageLists == { <<>>, <<PageA>>, <<PageA, PageB>> }

\* the message set by the catch branch of fetchFileData
ErrorMessages == {"HTTP error! status", "Failed to fetch"}

\* ------------------------------------------------------------ null values
\* useState<FileData | null>(null)
NoFile == [file_id |-> "null", data |-> <<>>]
\* useState<string | null>(null)
NoError == "null"
\* useState<any>(null)
NoResult == [token |-> 0, query |-> "null", file_id |-> "null"]
\* useState<number>(-1)
NoBlock == -1

\* the inputs of getBlockStyle: point coordinates, polygons, page sizes
XCoords == {0, 10, 50}
YCoords == {10, 40}
Points == {<<x, y>> : x \in XCoords, y \in YCoords}
Polygons == UNION {[1 .. n -> Points] : n \in 0 .. MaxPoints}
PageSizes == {<<w, h>> : w \in {50, 100}, h \in {50, 100}}

\* ---------------------------------------------------------------- helpers
At(s, i) == s[i + 1]
Max(a, b) == IF a >= b THEN a ELSE b
Min(a, b) == IF a <= b THEN a ELSE b

\* ------------------------------------------------------- JavaScript numbers
\* A number is the exact fraction num/den in lowest terms with den > 0;
\* den = 0 stands for Infinity (num = 1), -Infinity (num = -1), NaN (num = 0).
Abs(n) == IF n < 0 THEN -n ELSE n
RECURSIVE GCD(_, _)
GCD(a, b) == IF b = 0 THEN a ELSE GCD(b, a % b)
Frac(n, d) ==
    LET g == GCD(Abs(n), d)
    IN  [num |-> n \div g, den |-> d \div g]
Num(n) == [num |-> n, den |-> 1]
Infinity == [num |-> 1, den |-> 0]
NegInfinity == [num |-> -1, den |-> 0]
NaN == [num |-> 0, den |-> 0]
IsFinite(a) == a.den > 0

\* a < b on numbers (false when either is NaN)
Less(a, b) ==
    IF IsFinite(a) /\ IsFinite(b) THEN a.num * b.den < b.num * a.den
    ELSE IF a = NaN \/ b = NaN THEN FALSE
    ELSE IF IsFinite(a) THEN b = Infinity
    ELSE IF IsFinite(b) THEN a = NegInfinity
    ELSE a = NegInfinity /\ b = Infinity

\* a - b
Minus(a, b) ==
    IF IsFinite(a) /\ IsFinite(b)
      THEN Frac(a.num * b.den - b.num * a.den, a.den * b.den)
    ELSE IF a = NaN \/ b = NaN THEN NaN
    ELSE IF IsFinite(a) THEN (IF b = Infinity THEN NegInfinity ELSE Infinity)
    ELSE IF IsFinite(b) THEN a
    ELSE IF a = b THEN NaN ELSE a

\* a + k, a / k and a * k for an integer k > 0
PlusInt(a, k) == IF IsFinite(a) THEN Frac(a.num + k * a.den, a.den) ELSE a
DivInt(a, k) == IF IsFinite(a) THEN Frac(a.num, a.den * k) ELSE a
TimesInt(a, k) == IF IsFinite(a) THEN Frac(a.num * k, a.den) ELSE a

\* Math.min(...xs) and Math.max(...xs) of a list of integers; of the empty
\* list they are Infinity and -Infinity
RECURSIVE MathMin(_)
MathMin(xs) ==
    IF xs = <<>> THEN Infinity
    ELSE LET m == MathMin(Tail(xs))
         IN  IF Less(Num(Head(xs)), m) THEN Num(Head(xs)) ELSE m
RECURSIVE MathMax(_)
MathMax(xs) ==
    IF xs = <<>> THEN NegInfinity
    ELSE LET m == MathMax(Tail(xs))
         IN  IF Less(m, Num(Head(xs))) THEN Num(Head(xs)) ELSE m

\* ------------------------------------------------------------ getBlockStyle
\* padding added on every side of the bounding rectangle, in pixels
Padding == 10

\* getBlockStyle clamping every percentage to [0, 100]
Clamp(a) ==
    IF Less(a, Num(0)) THEN Num(0)
    ELSE IF Less(Num(100), a) THEN Num(100) ELSE a
getBlockStyle_Clamped(box, dimensions) ==
    LET xCoords == [k \in 1 .. Len(box) |-> box[k][1]]
        yCoords == [k \in 1 .. Len(box) |-> box[k][2]]
        minX == PlusInt(MathMin(xCoords), -Padding)
        maxX == PlusInt(MathMax(xCoords), Padding)
        minY == PlusInt(MathMin(yCoords), -Padding)
        maxY == PlusInt(MathMax(yCoords), Padding)
    IN  [left |-> Clamp(TimesInt(DivInt(minX, dimensions[1]), 100)),
         top |-> Clamp(TimesInt(DivInt(minY, dimensions[2]), 100)),
         width |-> Clamp(TimesInt(DivInt(Minus(maxX, minX), dimensions[1]), 100)),
         height |-> Clamp(TimesInt(DivInt(Minus(maxY, minY), dimensions[2]), 100))]

\* getBlockStyle padding the minimum side only
getBlockStyle_NoMaxPadding(box, dimensions) ==
    LET xCoords == [k \in 1 .. Len(box) |-> box[k][1]]
        yCoords == [k \in 1 .. Len(box) |-> box[k][2]]
        minX == PlusInt(MathMin(xCoords), -Padding)
        maxX == MathMax(xCoords)
        minY == PlusInt(MathMin(yCoords), -Padding)
        maxY == MathMax(yCoords)
    IN  [left |-> TimesInt(DivInt(minX, dimensions[1]), 100),
         top |-> TimesInt(DivInt(minY, dimensions[2]), 100),
         width |-> TimesInt(DivInt(Minus(maxX, minX), dimensions[1]), 100),
         height |-> TimesInt(DivInt(Minus(maxY, minY), dimensions[2]), 100)]

\* getBlockStyle dividing left by the height of the page
getBlockStyle_LeftByHeight(box, dimensions) ==
    LET xCoords == [k \in 1 .. Len(box) |-> box[k][1]]
        yCoords == [k \in 1 .. Len(box) |-> box[k][2]]
        minX == PlusInt(MathMin(xCoords), -Padding)
        maxX == PlusInt(MathMax(xCoords), Padding)
        minY == PlusInt(MathMin(yCoords), -Padding)
        maxY == PlusInt(MathMax(yCoords), Padding)
    IN  [left |-> TimesInt(DivInt(minX, dimensions[2]), 100),
         top |-> TimesInt(DivInt(minY, dimensions[2]), 100),
         width |-> TimesInt(DivInt(Minus(maxX, minX), dimensions[1]), 100),
         height |-> TimesInt(DivInt(Minus(maxY, minY), dimensions[2]), 100)]

\* the percentages of the style object (left, top, width, height)
getBlockStyle(box, dimensions) ==
    LET originalWidth == dimensions[1]
        originalHeight == dimensions[2]
        xCoords == [k \in 1 .. Len(box) |-> box[k][1]]
        yCoords == [k \in 1 .. Len(box) |-> box[k][2]]
        minX == PlusInt(MathMin(xCoords), -Padding)
        maxX == PlusInt(MathMax(xCoords), Padding)
        minY == PlusInt(MathMin(yCoords), -Padding)
        maxY == PlusInt(MathMax(yCoords), Padding)
    IN  [left |-> TimesInt(DivInt(minX, originalWidth), 100),
         top |-> TimesInt(DivInt(minY, originalHeight), 100),
         width |-> TimesInt(DivInt(Minus(maxX, minX), originalWidth), 100),
         height |-> TimesInt(DivInt(Minus(maxY, minY), originalHeight), 100)]

\* no style computed yet
NoStyle == [left |-> NaN, top |-> NaN, width |-> NaN, height |-> NaN]

VARIABLES
    id,             \* resolvedParams.id
    currentPage,    \* useState(0)
    fileData,       \* useState<FileData | null>(null)
    loading,        \* useState(true)
    error,          \* useState<string | null>(null)
    clickedBlock,   \* useState<number>(-1)
    searchResults,  \* useState<any>(null)
    effectDue,      \* the effect of [resolvedParams.id] is scheduled
    fileFetches,    \* get_file requests in flight
    searches,       \* search_embeddings requests in flight
    loadCount,      \* loads begun (mount + changes of the id)
    fetchCount,     \* get_file requests issued
    clicks,         \* block clicks handled
    searchCount,    \* search_embeddings requests issued
    lastOp,         \* log: the handler that ran last
    boundingBox,    \* argument of a call of getBlockStyle
    imageDimensions,\* argument of a call of getBlockStyle
    style,          \* the value the call returned
    content,            \* Dashboard: useState<ContentItem[]>([])
    isUploading,        \* Dashboard: useState(false)
    isModalOpen,        \* Dashboard: useState(false)
    modalContent,       \* Dashboard: useState<FileData | null>(null)
    modalType,          \* Dashboard: useState<'notes' | 'video' | null>(null)
    isLoadingModal,     \* Dashboard: useState(false)
    isGeneratingNotes,  \* Dashboard: useState<string | null>(null)
    isPDFPreviewOpen,   \* Dashboard: useState(false)
    pdfPreviewData,     \* Dashboard: useState<{fileId, fileName} | null>(null)
    allFiles,           \* the get_all_files request of the mount effect
    uploads,            \* upload requests in flight
    views,              \* get_file requests of handleViewFile in flight
    generations,        \* generate_notes requests in flight
    uploadCount,        \* uploads started
    viewCount,          \* View requests started
    generationCount     \* notes generations started

vars == <<id, currentPage, fileData, loading, error, clickedBlock,
          searchResults, effectDue, fileFetches, searches, loadCount,
          fetchCount, clicks, searchCount, lastOp, boundingBox,
          imageDimensions, style, content, isUploading, isModalOpen,
          modalContent, modalType, isLoadingModal, isGeneratingNotes,
          isPDFPreviewOpen, pdfPreviewData, allFiles, uploads, views,
          generations, uploadCount, viewCount, generationCount>>

\* the variables of the Workspace component
viewer == <<id, currentPage, fileData, loading, error, clickedBlock,
            searchResults, effectDue, fileFetches, searches, loadCount,
            fetchCount, clicks, searchCount>>

\* the variables of the Dashboard component
dashboard == <<content, isUploading, isModalOpen, modalContent, modalType,
               isLoadingModal, isGeneratingNotes, isPDFPreviewOpen,
               pdfPreviewData, allFiles, uploads, views, generations,
               uploadCount, viewCount, generationCount>>

\* ------------------------------------------------- dashboard: null values
\* useState<FileData | null>(null)
NoContent == [token |-> 0, file_id |-> "null", file_usage |-> "null"]
\* useState<'notes' | 'video' | null>(null)
NoType == "null"
\* useState<string | null>(null)
NoItem == "null"
\* useState<{fileId, fileName} | null>(null)
NoPreview == "null"

\* the state of the Dashboard component after construction, the effect of
\* the mount not yet run
DashboardIdle ==
    /\ content = <<>>
    /\ isUploading = FALSE
    /\ isModalOpen = FALSE
    /\ modalContent = NoContent
    /\ modalType = NoType
    /\ isLoadingModal = FALSE
    /\ isGeneratingNotes = NoItem
    /\ isPDFPreviewOpen = FALSE
    /\ pdfPreviewData = NoPreview
    /\ allFiles = "due"
    /\ uploads = {}
    /\ views = {}
    /\ generations = {}
    /\ uploadCount = 0
    /\ viewCount = 0
    /\ generationCount = 0

\* the variables of a call of getBlockStyle on its own
geometry == <<boundingBox, imageDimensions, style>>

\* ------------------------------------------------------------ render guards
\* what the component returns: the loading screen, the error screen, the
\* page; "crash" when fileData.data[currentPage] is undefined and the
\* render throws on currentPageData.image
View ==
    IF loading THEN "loading"
    ELSE IF error # NoError \/ fileData = NoFile THEN "error"
    ELSE IF currentPage < 0 \/ currentPage >= Len(fileData.data) THEN "crash"
    ELSE "page"

\* the component is mounted; a render that throws unmounts it
Mounted == View # "crash"

currentPageData == At(fileData.data, currentPage)
totalPages == Len(fileData.data)

\* --------------------------------------------------------------------- Init
Init ==
    /\ id \in Ids
    /\ currentPage = 0
    /\ fileData = NoFile
    /\ loading = TRUE
    /\ error = NoError
    /\ clickedBlock = NoBlock
    /\ searchResults = NoResult
    /\ effectDue = TRUE
    /\ fileFetches = {}
    /\ searches = {}
    /\ loadCount = 1
    /\ fetchCount = 0
    /\ clicks = 0
    /\ searchCount = 0
    /\ lastOp = "Init"
    /\ boundingBox = <<>>
    /\ imageDimensions = <<100, 100>>
    /\ style = NoStyle
    /\ DashboardIdle

\* ------------------------------------------------------------ document load
\* the effect: setLoading(true) and the get_file request for the current id
FetchFileData ==
    /\ effectDue
    /\ Mounted
    /\ effectDue' = FALSE
    /\ loading' = TRUE
    /\ fetchCount' = fetchCount + 1
    /\ fileFetches' = fileFetches \cup {[file_id |-> id, n |-> fetchCount + 1]}
    /\ lastOp' = "FetchFileData"
    /\ UNCHANGED geometry
    /\ UNCHANGED dashboard
    /\ UNCHANGED <<id, currentPage, fileData, error, clickedBlock,
                   searchResults, searches, loadCount, clicks, searchCount>>

\* response.ok and a JSON body: setFileData(data), then setLoading(false)
FetchSucceed(f, pages) ==
    /\ f \in fileFetches
    /\ ~effectDue
    /\ Mounted
    /\ fileFetches' = fileFetches \ {f}
    /\ fileData' = [file_id |-> f.file_id, data |-> pages]
    /\ loading' = FALSE
    /\ lastOp' = "FetchSucceed"
    /\ UNCHANGED geometry
    /\ UNCHANGED dashboard
    /\ UNCHANGED <<id, currentPage, error, clickedBlock, searchResults,
                   effectDue, searches, loadCount, fetchCount, clicks,
                   searchCount>>

\* a catch branch that schedules the fetch again
FetchFail_Retry(f, msg) ==
    /\ f \in fileFetches
    /\ ~effectDue
    /\ Mounted
    /\ fileFetches' = fileFetches \ {f}
    /\ error' = msg
    /\ loading' = FALSE
    /\ effectDue' = (fetchCount <= MaxLoads)
    /\ lastOp' = "FetchFail"
    /\ UNCHANGED geometry
    /\ UNCHANGED dashboard
    /\ UNCHANGED <<id, currentPage, fileData, clickedBlock, searchResults,
                   searches, loadCount, fetchCount, clicks, searchCount>>

\* network error, non-OK status or unparsable body: setError, setLoading(false)
FetchFail(f, msg) ==
    /\ f \in fileFetches
    /\ ~effectDue
    /\ Mounted
    /\ fileFetches' = fileFetches \ {f}
    /\ error' = msg
    /\ loading' = FALSE
    /\ lastOp' = "FetchFail"
    /\ UNCHANGED geometry
    /\ UNCHANGED dashboard
    /\ UNCHANGED <<id, currentPage, fileData, clickedBlock, searchResults,
                   effectDue, searches, loadCount, fetchCount, clicks,
                   searchCount>>

\* the route parameter changes while the component stays mounted: the
\* dependency [resolvedParams.id] schedules the effect again
ChangeId(newId) ==
    /\ newId # id
    /\ ~effectDue
    /\ Mounted
    /\ loadCount < MaxLoads
    /\ id' = newId
    /\ effectDue' = TRUE
    /\ loadCount' = loadCount + 1
    /\ lastOp' = "ChangeId"
    /\ UNCHANGED geometry
    /\ UNCHANGED dashboard
    /\ UNCHANGED <<currentPage, fileData, loading, error, clickedBlock,
                   searchResults, fileFetches, searches, fetchCount, clicks,
                   searchCount>>

\* ------------------------------------------------------------- block search
\* the regions rendered over the page image: one per text block of the
\* current page, keyed by its index
Regions == 0 .. (Len(currentPageData.text_blocks) - 1)

\* the regions always taken from the first page of the document
RenderedRegions_FirstPage ==
    IF View # "page" THEN {}
    ELSE {[key |-> i,
           block |-> At(At(fileData.data, 0).text_blocks, i),
           selected |-> (clickedBlock = i)] :
             i \in 0 .. (Len(At(fileData.data, 0).text_blocks) - 1)}

\* what the page render mounts over the image: for every text block of
\* currentPageData one region with key = index, the block it was built from
\* and the selected class when clickedBlock === index; the loading and the
\* error screen (and a render that throws) mount none
RenderedRegions ==
    IF View # "page" THEN {}
    ELSE {[key |-> i,
           block |-> At(currentPageData.text_blocks, i),
           selected |-> (clickedBlock = i)] : i \in Regions}

\* the request built from the text of block i of the first page
SearchRequest_FirstPage(i) ==
    [token |-> clicks + 1,
     query |-> At(At(fileData.data, 0).text_blocks, i).text,
     file_id |-> id,
     page |-> currentPage,
     block |-> i]

\* the request built by handleBlockClick for block i of the current page
SearchRequest(i) ==
    [token |-> clicks + 1,
     query |-> At(currentPageData.text_blocks, i).text,
     file_id |-> id,
     page |-> currentPage,
     block |-> i]

\* the payload the backend returns for request r
ResultOf(r) == [token |-> r.token, query |-> r.query, file_id |-> r.file_id]

\* onClick of region i: setClickedBlock(i); return if the text is empty;
\* otherwise issue the search request
handleBlockClick(i) ==
    /\ View = "page"
    /\ ~effectDue
    /\ clicks < MaxClicks
    /\ i \in Regions
    /\ clickedBlock' = i
    /\ clicks' = clicks + 1
    /\ IF At(currentPageData.text_blocks, i).text = ""
         THEN UNCHANGED <<searches, searchCount>>
         ELSE /\ searches' = searches \cup {SearchRequest(i)}
              /\ searchCount' = searchCount + 1
    /\ lastOp' = "handleBlockClick"
    /\ UNCHANGED geometry
    /\ UNCHANGED dashboard
    /\ UNCHANGED <<id, currentPage, fileData, loading, error, searchResults,
                   effectDue, fileFetches, loadCount, fetchCount>>

\* a successful response that is not stored
SearchSucceed_Drop(r) ==
    /\ r \in searches
    /\ ~effectDue
    /\ Mounted
    /\ searches' = searches \ {r}
    /\ lastOp' = "SearchSucceed"
    /\ UNCHANGED geometry
    /\ UNCHANGED dashboard
    /\ UNCHANGED <<id, currentPage, fileData, loading, error, clickedBlock,
                   searchResults, effectDue, fileFetches, loadCount,
                   fetchCount, clicks, searchCount>>

\* response.ok: setSearchResults(data)
SearchSucceed(r) ==
    /\ r \in searches
    /\ ~effectDue
    /\ Mounted
    /\ searches' = searches \ {r}
    /\ searchResults' = ResultOf(r)
    /\ lastOp' = "SearchSucceed"
    /\ UNCHANGED geometry
    /\ UNCHANGED dashboard
    /\ UNCHANGED <<id, currentPage, fileData, loading, error, clickedBlock,
                   effectDue, fileFetches, loadCount, fetchCount, clicks,
                   searchCount>>

\* a catch branch that also clears the stored result
SearchFail_ClearsResult(r) ==
    /\ r \in searches
    /\ ~effectDue
    /\ Mounted
    /\ searches' = searches \ {r}
    /\ searchResults' = NoResult
    /\ lastOp' = "SearchFail"
    /\ UNCHANGED geometry
    /\ UNCHANGED dashboard
    /\ UNCHANGED <<id, currentPage, fileData, loading, error, clickedBlock,
                   effectDue, fileFetches, loadCount, fetchCount, clicks,
                   searchCount>>

\* a catch branch that drops the installed document
SearchFail_DropsDocument(r) ==
    /\ r \in searches
    /\ ~effectDue
    /\ Mounted
    /\ searches' = searches \ {r}
    /\ fileData' = NoFile
    /\ lastOp' = "SearchFail"
    /\ UNCHANGED geometry
    /\ UNCHANGED dashboard
    /\ UNCHANGED <<id, currentPage, loading, error, clickedBlock,
                   searchResults, effectDue, fileFetches, loadCount,
                   fetchCount, clicks, searchCount>>

\* the catch branch: console.error only
SearchFail(r) ==
    /\ r \in searches
    /\ ~effectDue
    /\ Mounted
    /\ searches' = searches \ {r}
    /\ lastOp' = "SearchFail"
    /\ UNCHANGED geometry
    /\ UNCHANGED dashboard
    /\ UNCHANGED <<id, currentPage, fileData, loading, error, clickedBlock,
                   searchResults, effectDue, fileFetches, loadCount,
                   fetchCount, clicks, searchCount>>

\* --------------------------------------------------------------- pagination
\* Previous with the page index among the dependencies of the effect
Previous_Refetch ==
    /\ View = "page"
    /\ ~effectDue
    /\ currentPage' = Max(0, currentPage - 1)
    /\ effectDue' = (currentPage' # currentPage)
    /\ lastOp' = IF currentPage = 0 THEN "Previous at first" ELSE "Previous"
    /\ UNCHANGED geometry
    /\ UNCHANGED dashboard
    /\ UNCHANGED <<id, fileData, loading, error, clickedBlock, searchResults,
                   fileFetches, searches, loadCount, fetchCount,
                   clicks, searchCount>>

\* onClick of Previous: setCurrentPage(Math.max(0, currentPage - 1))
Previous ==
    /\ View = "page"
    /\ ~effectDue
    /\ currentPage' = Max(0, currentPage - 1)
    /\ lastOp' = IF currentPage = 0 THEN "Previous at first" ELSE "Previous"
    /\ UNCHANGED geometry
    /\ UNCHANGED dashboard
    /\ UNCHANGED <<id, fileData, loading, error, clickedBlock, searchResults,
                   effectDue, fileFetches, searches, loadCount, fetchCount,
                   clicks, searchCount>>

\* Next without the clamp to the last page
NextPage_NoClamp ==
    /\ View = "page"
    /\ ~effectDue
    /\ currentPage' = currentPage + 1
    /\ lastOp' = IF currentPage = totalPages - 1 THEN "Next at last" ELSE "Next"
    /\ UNCHANGED geometry
    /\ UNCHANGED dashboard
    /\ UNCHANGED <<id, fileData, loading, error, clickedBlock, searchResults,
                   effectDue, fileFetches, searches, loadCount, fetchCount,
                   clicks, searchCount>>

\* onClick of Next: setCurrentPage(Math.min(totalPages - 1, currentPage + 1))
NextPage ==
    /\ View = "page"
    /\ ~effectDue
    /\ currentPage' = Min(totalPages - 1, currentPage + 1)
    /\ lastOp' = IF currentPage = totalPages - 1 THEN "Next at last" ELSE "Next"
    /\ UNCHANGED geometry
    /\ UNCHANGED dashboard
    /\ UNCHANGED <<id, fileData, loading, error, clickedBlock, searchResults,
                   effectDue, fileFetches, searches, loadCount, fetchCount,
                   clicks, searchCount>>

\* --------------------------------------------------------------------- Next
DocSucceeds == \E f \in fileFetches : \E pages \in PageLists : FetchSucceed(f, pages)
DocFails == \E f \in fileFetches : \E msg \in ErrorMessages : FetchFail(f, msg)
IdChanges == \E newId \in Ids : ChangeId(newId)
BlockClicked == View = "page" /\ \E i \in Regions : handleBlockClick(i)
SearchSucceeds == \E r \in searches : SearchSucceed(r)
SearchFails == \E r \in searches : SearchFail(r)

Next ==
    \/ FetchFileData
    \/ DocSucceeds
    \/ DocFails
    \/ IdChanges
    \/ BlockClicked
    \/ SearchSucceeds
    \/ SearchFails
    \/ Previous
    \/ NextPage

Spec == Init /\ [][Next]_vars

\* ------------------------------------------- getBlockStyle as a function
\* one call of getBlockStyle on a polygon and a page size
InitGeometry ==
    /\ id = "w1"
    /\ currentPage = 0
    /\ fileData = NoFile
    /\ loading = TRUE
    /\ error = NoError
    /\ clickedBlock = NoBlock
    /\ searchResults = NoResult
    /\ effectDue = TRUE
    /\ fileFetches = {}
    /\ searches = {}
    /\ loadCount = 1
    /\ fetchCount = 0
    /\ clicks = 0
    /\ searchCount = 0
    /\ lastOp = "Init"
    /\ boundingBox \in Polygons
    /\ imageDimensions \in PageSizes
    /\ style = NoStyle
    /\ DashboardIdle

CallGetBlockStyle ==
    /\ lastOp = "Init"
    /\ style' = getBlockStyle(boundingBox, imageDimensions)
    /\ lastOp' = "getBlockStyle"
    /\ UNCHANGED <<id, currentPage, fileData, loading, error, clickedBlock,
                   searchResults, effectDue, fileFetches, searches, loadCount,
                   fetchCount, clicks, searchCount, boundingBox,
                   imageDimensions>>
    /\ UNCHANGED dashboard

NextGeometry == CallGetBlockStyle

SpecGeometry == InitGeometry /\ [][NextGeometry]_vars

\* =============================================================== dashboard
\* The library dashboard (frontend/app/dashboard/page.tsx).

\* two items of the library (ContentItem: id and file_usage), a video and
\* notes; both show a View and a Create Notes button
ItemV == [id |-> "v1", file_usage |-> "video"]
ItemN == [id |-> "n1", file_usage |-> "notes"]

\* the lists a get_all_files response may carry
FileLists == { <<>>, <<ItemV>>, <<ItemV, ItemN>> }

\* the usage tag of an upload (uploadType)
UploadTypes == {"video", "worksheet", "notes"}

\* the file ids the backend assigns to uploads
UploadIds == {"u1", "u2"}

\* the requests the dashboard has started
Started == uploadCount + viewCount + generationCount

\* the ids of the items of a list
IdsOf(list) == {list[k].id : k \in 1 .. Len(list)}

\* the items of the library list
Items == {content[k] : k \in 1 .. Len(content)}

\* ------------------------------------------------------- library overview
\* the effect of the mount: the get_all_files request
FetchAllFiles ==
    /\ allFiles = "due"
    /\ allFiles' = "pending"
    /\ lastOp' = "FetchAllFiles"
    /\ UNCHANGED <<viewer, geometry>>
    /\ UNCHANGED <<content, isUploading, isModalOpen, modalContent, modalType,
                   isLoadingModal, isGeneratingNotes, isPDFPreviewOpen,
                   pdfPreviewData, uploads, views, generations, uploadCount,
                   viewCount, generationCount>>

\* response.ok: setContent(newFiles)
AllFilesSucceed(files) ==
    /\ allFiles = "pending"
    /\ allFiles' = "done"
    /\ content' = files
    /\ lastOp' = "AllFilesSucceed"
    /\ UNCHANGED <<viewer, geometry>>
    /\ UNCHANGED <<isUploading, isModalOpen, modalContent, modalType,
                   isLoadingModal, isGeneratingNotes, isPDFPreviewOpen,
                   pdfPreviewData, uploads, views, generations, uploadCount,
                   viewCount, generationCount>>

\* the catch branch: alert only
AllFilesFail ==
    /\ allFiles = "pending"
    /\ allFiles' = "done"
    /\ lastOp' = "AllFilesFail"
    /\ UNCHANGED <<viewer, geometry>>
    /\ UNCHANGED <<content, isUploading, isModalOpen, modalContent, modalType,
                   isLoadingModal, isGeneratingNotes, isPDFPreviewOpen,
                   pdfPreviewData, uploads, views, generations, uploadCount,
                   viewCount, generationCount>>

\* ------------------------------------------------------------------ upload
\* onChange of a file input with a file chosen: setIsUploading(true) and
\* the upload request carrying the usage tag
handleFileUpload(uploadType) ==
    /\ allFiles # "due"
    /\ Started < MaxRequests
    /\ isUploading' = TRUE
    /\ uploadCount' = uploadCount + 1
    /\ uploads' = uploads \cup {[token |-> uploadCount + 1, file_usage |-> uploadType]}
    /\ lastOp' = "handleFileUpload"
    /\ UNCHANGED <<viewer, geometry>>
    /\ UNCHANGED <<content, isModalOpen, modalContent, modalType,
                   isLoadingModal, isGeneratingNotes, isPDFPreviewOpen,
                   pdfPreviewData, allFiles, views, generations, viewCount,
                   generationCount>>

\* the item built from the upload result
NewFile(u, file_id) == [id |-> file_id, file_usage |-> u.file_usage]

\* a successful upload that puts the new item at the end of the list
UploadSucceed_Append(u, file_id) ==
    /\ u \in uploads
    /\ uploads' = uploads \ {u}
    /\ content' = Append(content, NewFile(u, file_id))
    /\ isUploading' = FALSE
    /\ lastOp' = "UploadSucceed"
    /\ UNCHANGED <<viewer, geometry>>
    /\ UNCHANGED <<isModalOpen, modalContent, modalType, isLoadingModal,
                   isGeneratingNotes, isPDFPreviewOpen, pdfPreviewData,
                   allFiles, views, generations, uploadCount, viewCount,
                   generationCount>>

\* uploadResponse.ok: setContent(prev => [newFile, ...prev]), then
\* setIsUploading(false)
UploadSucceed(u, file_id) ==
    /\ u \in uploads
    /\ uploads' = uploads \ {u}
    /\ content' = <<NewFile(u, file_id)>> \o content
    /\ isUploading' = FALSE
    /\ lastOp' = "UploadSucceed"
    /\ UNCHANGED <<viewer, geometry>>
    /\ UNCHANGED <<isModalOpen, modalContent, modalType, isLoadingModal,
                   isGeneratingNotes, isPDFPreviewOpen, pdfPreviewData,
                   allFiles, views, generations, uploadCount, viewCount,
                   generationCount>>

\* network error or non-OK status: alert, then setIsUploading(false)
UploadFail(u) ==
    /\ u \in uploads
    /\ uploads' = uploads \ {u}
    /\ isUploading' = FALSE
    /\ lastOp' = "UploadFail"
    /\ UNCHANGED <<viewer, geometry>>
    /\ UNCHANGED <<content, isModalOpen, modalContent, modalType,
                   isLoadingModal, isGeneratingNotes, isPDFPreviewOpen,
                   pdfPreviewData, allFiles, views, generations, uploadCount,
                   viewCount, generationCount>>

\* -------------------------------------------------------------- View modal
\* the modal type handleViewFile sets for an item
TypeOf(file_usage) == IF file_usage = "video" THEN "video" ELSE "notes"

\* the get_file request of handleViewFile for an item; closed records that
\* closeModal ran while the request was in flight
ViewRequest(item) ==
    [token |-> viewCount + 1, file_id |-> item.id,
     file_usage |-> item.file_usage, closed |-> FALSE]

\* the FileData the backend returns for request v
FileOf(v) == [token |-> v.token, file_id |-> v.file_id, file_usage |-> v.file_usage]

\* onClick of View on an item with file_usage notes or video:
\* setIsLoadingModal(true), setIsModalOpen(true), setModalType, the request
handleViewFile(item) ==
    /\ item \in Items
    /\ item.file_usage \in {"notes", "video"}
    /\ Started < MaxRequests
    /\ isLoadingModal' = TRUE
    /\ isModalOpen' = TRUE
    /\ modalType' = TypeOf(item.file_usage)
    /\ viewCount' = viewCount + 1
    /\ views' = views \cup {ViewRequest(item)}
    /\ lastOp' = "handleViewFile"
    /\ UNCHANGED <<viewer, geometry>>
    /\ UNCHANGED <<content, isUploading, modalContent, isGeneratingNotes,
                   isPDFPreviewOpen, pdfPreviewData, allFiles, uploads,
                   generations, uploadCount, generationCount>>

\* response.ok: setModalContent(fileData), then setIsLoadingModal(false)
ViewSucceed(v) ==
    /\ v \in views
    /\ views' = views \ {v}
    /\ modalContent' = FileOf(v)
    /\ isLoadingModal' = FALSE
    /\ lastOp' = "ViewSucceed"
    /\ UNCHANGED <<viewer, geometry>>
    /\ UNCHANGED <<content, isUploading, isModalOpen, modalType,
                   isGeneratingNotes, isPDFPreviewOpen, pdfPreviewData,
                   allFiles, uploads, generations, uploadCount, viewCount,
                   generationCount>>

\* the catch branch: alert, setIsModalOpen(false), then
\* setIsLoadingModal(false)
ViewFail(v) ==
    /\ v \in views
    /\ views' = views \ {v}
    /\ isModalOpen' = FALSE
    /\ isLoadingModal' = FALSE
    /\ lastOp' = "ViewFail"
    /\ UNCHANGED <<viewer, geometry>>
    /\ UNCHANGED <<content, isUploading, modalContent, modalType,
                   isGeneratingNotes, isPDFPreviewOpen, pdfPreviewData,
                   allFiles, uploads, generations, uploadCount, viewCount,
                   generationCount>>

\* onClose of the open modal: the four modal cells are reset
closeModal ==
    /\ isModalOpen
    /\ isModalOpen' = FALSE
    /\ modalContent' = NoContent
    /\ modalType' = NoType
    /\ isLoadingModal' = FALSE
    /\ views' = {[v EXCEPT !.closed = TRUE] : v \in views}
    /\ lastOp' = "closeModal"
    /\ UNCHANGED <<viewer, geometry>>
    /\ UNCHANGED <<content, isUploading, isGeneratingNotes, isPDFPreviewOpen,
                   pdfPreviewData, allFiles, uploads, generations,
                   uploadCount, viewCount, generationCount>>

\* -------------------------------------------------------- notes generation
\* the Create Notes button of an item is disabled
Disabled(item) == isGeneratingNotes = item.id

\* onClick of Create Notes on an item that is not a worksheet and whose
\* button is enabled: setIsGeneratingNotes(item.id) and the request
handleGenerateNotes(item) ==
    /\ item \in Items
    /\ item.file_usage # "worksheet"
    /\ ~Disabled(item)
    /\ Started < MaxRequests
    /\ isGeneratingNotes' = item.id
    /\ generationCount' = generationCount + 1
    /\ generations' = generations \cup
                        {[token |-> generationCount + 1, file_id |-> item.id]}
    /\ lastOp' = "handleGenerateNotes"
    /\ UNCHANGED <<viewer, geometry>>
    /\ UNCHANGED <<content, isUploading, isModalOpen, modalContent, modalType,
                   isLoadingModal, isPDFPreviewOpen, pdfPreviewData, allFiles,
                   uploads, views, uploadCount, viewCount>>

\* response.ok and result.success: setPDFPreviewData, setIsPDFPreviewOpen(true),
\* then setIsGeneratingNotes(null)
GenerateSucceed(g) ==
    /\ g \in generations
    /\ generations' = generations \ {g}
    /\ pdfPreviewData' = g.file_id
    /\ isPDFPreviewOpen' = TRUE
    /\ isGeneratingNotes' = NoItem
    /\ lastOp' = "GenerateSucceed"
    /\ UNCHANGED <<viewer, geometry>>
    /\ UNCHANGED <<content, isUploading, isModalOpen, modalContent, modalType,
                   isLoadingModal, allFiles, uploads, views, uploadCount,
                   viewCount, generationCount>>

\* the catch branch: alert, then setIsGeneratingNotes(null)
GenerateFail(g) ==
    /\ g \in generations
    /\ generations' = generations \ {g}
    /\ isGeneratingNotes' = NoItem
    /\ lastOp' = "GenerateFail"
    /\ UNCHANGED <<viewer, geometry>>
    /\ UNCHANGED <<content, isUploading, isModalOpen, modalContent, modalType,
                   isLoadingModal, isPDFPreviewOpen, pdfPreviewData, allFiles,
                   uploads, views, uploadCount, viewCount, generationCount>>

\* onClose of the PDF preview
closePDFPreview ==
    /\ isPDFPreviewOpen
    /\ isPDFPreviewOpen' = FALSE
    /\ pdfPreviewData' = NoPreview
    /\ lastOp' = "closePDFPreview"
    /\ UNCHANGED <<viewer, geometry>>
    /\ UNCHANGED <<content, isUploading, isModalOpen, modalContent, modalType,
                   isLoadingModal, isGeneratingNotes, allFiles, uploads, views,
                   generations, uploadCount, viewCount, generationCount>>

\* ------------------------------------------------------------ NextDashboard
OverviewSucceeds == \E files \in FileLists : AllFilesSucceed(files)
UploadStarts == \E uploadType \in UploadTypes : handleFileUpload(uploadType)
UploadSucceeds ==
    \E u \in uploads : \E file_id \in UploadIds \ IdsOf(content) :
        UploadSucceed(u, file_id)
UploadFails == \E u \in uploads : UploadFail(u)
ViewClicked == \E item \in Items : handleViewFile(item)
ViewSucceeds == \E v \in views : ViewSucceed(v)
ViewFails == \E v \in views : ViewFail(v)
GenerateClicked == \E item \in Items : handleGenerateNotes(item)
GenerateSucceeds == \E g \in generations : GenerateSucceed(g)
GenerateFails == \E g \in generations : GenerateFail(g)

NextDashboard ==
    \/ FetchAllFiles
    \/ OverviewSucceeds
    \/ AllFilesFail
    \/ UploadStarts
    \/ UploadSucceeds
    \/ UploadFails
    \/ ViewClicked
    \/ ViewSucceeds
    \/ ViewFails
    \/ closeModal
    \/ GenerateClicked
    \/ GenerateSucceeds
    \/ GenerateFails
    \/ closePDFPreview

\* the dashboard on its own: the Workspace component is not mounted
InitDashboard ==
    /\ id = "w1"
    /\ currentPage = 0
    /\ fileData = NoFile
    /\ loading = TRUE
    /\ error = NoError
    /\ clickedBlock = NoBlock
    /\ searchResults = NoResult
    /\ effectDue = TRUE
    /\ fileFetches = {}
    /\ searches = {}
    /\ loadCount = 1
    /\ fetchCount = 0
    /\ clicks = 0
    /\ searchCount = 0
    /\ lastOp = "Init"
    /\ boundingBox = <<>>
    /\ imageDimensions = <<100, 100>>
    /\ style = NoStyle
    /\ DashboardIdle

SpecDashboard == InitDashboard /\ [][NextDashboard]_vars

TypeOK ==
    /\ id \in Ids
    /\ currentPage \in 0 .. 1
    /\ loading \in BOOLEAN
    /\ effectDue \in BOOLEAN
    /\ error \in ErrorMessages \cup {NoError}
    /\ clickedBlock \in -1 .. 2
    /\ loadCount \in 1 .. MaxLoads
    /\ fetchCount \in 0 .. MaxLoads
    /\ clicks \in 0 .. MaxClicks
    /\ searchCount \in 0 .. MaxClicks

\* ================================================================= claims

\* C1: block i is clicked, then a different block j, before any response
\* has arrived; whichever of the two responses arrives last, the result
\* stored once both have arrived is the response to j (the latest click).
C1_Scenario(r) ==
    /\ clicks >= 2
    /\ searches = {r}
    /\ \/ r.token = clicks - 1 /\ searchResults.token = clicks
                               /\ r.block # clickedBlock
       \/ r.token = clicks /\ searchResults.token = clicks - 1
C1_LatestClickWins ==
    [][\A r \in searches :
         (C1_Scenario(r) /\ SearchSucceed(r)) => searchResults'.token = clicks]_vars

\* C2: N clicks issue exactly N search requests, and a response is stored
\* as the surfaced result only if it answers the most recent click.
C2_OneRequestPerClick ==
    /\ [](searchCount = clicks)
    /\ [][\A r \in searches : SearchSucceed(r) => r.token = clicks]_vars

\* C3: a Previous/Next action that changes the page index leaves no block
\* selected.
C3_NavigationClearsSelection ==
    [][currentPage' # currentPage => clickedBlock' = NoBlock]_vars

\* C4: after a page-index change the controller is Idle (no selection, no
\* surfaced result of the previous page), and the response to a request
\* issued on another page does not become the surfaced result.
C4_NavigationResetsSearch ==
    [][/\ currentPage' # currentPage =>
            (clickedBlock' = NoBlock /\ searchResults' = NoResult)
       /\ \A r \in searches :
            (SearchSucceed(r) /\ r.page # currentPage) =>
                searchResults' # ResultOf(r)]_vars

\* C5: for every installed document the page index is a defined page of
\* it: 0 <= currentPage < pageCount.
C5_PageIndexInRange ==
    fileData # NoFile => (0 <= currentPage /\ currentPage < totalPages)

\* C6: Previous at the first page and Next at the last page raise no error
\* and leave the page index, the selected block and the stored result
\* unchanged.
C6_BoundaryNoOp ==
    [][((Previous /\ currentPage = 0) \/ (NextPage /\ currentPage = totalPages - 1))
         => (View' = "page" /\ UNCHANGED <<currentPage, clickedBlock, searchResults>>)]_vars

\* Next was pressed at the last page of a two-page document while a block
\* was selected and a result stored
C6_Witness ==
    /\ lastOp = "Next at last"
    /\ View = "page"
    /\ totalPages = 2
    /\ currentPage = 1
    /\ clickedBlock # NoBlock
    /\ searchResults # NoResult

\* C7: when a new load begins the state of the previous load is dropped
\* (page index, selection, result, error flag), and once every fetch has
\* settled the installed document is the one of the current id.
LoadSettled == ~effectDue /\ fileFetches = {}
C7_AtomicReplace ==
    /\ []((LoadSettled /\ fileData # NoFile) => fileData.file_id = id)
    /\ [][FetchFileData =>
            (/\ currentPage' = 0
             /\ clickedBlock' = NoBlock
             /\ searchResults' = NoResult
             /\ error' = NoError)]_vars

\* C8: a successful document fetch installs the fetched document, shows the
\* page (not the loading or error screen) and the page index is 0.
C8_SuccessShowsPageZero ==
    [][\A f \in fileFetches : \A pages \in PageLists :
         FetchSucceed(f, pages) =>
            (/\ fileData' = [file_id |-> f.file_id, data |-> pages]
             /\ View' = "page"
             /\ currentPage' = 0)]_vars

\* C9: while a document fetch is pending only the loading screen is shown
\* (so no page, click or navigation), and the completion of a fetch ends
\* the loading state.
C9_LoadingWhilePending ==
    /\ [](fileFetches # {} => View = "loading")
    /\ [][(DocSucceeds \/ DocFails) => ~loading']_vars

\* C10: a failed document fetch ends in the terminal error state: message
\* set, loading false, no document installed, error screen instead of the
\* page from then on, and no document fetch issued by the failure.
C10_FailureIsTerminal ==
    [][/\ DocFails =>
            (/\ error' # NoError
             /\ ~loading'
             /\ fileData' = NoFile
             /\ View' = "error"
             /\ fetchCount' = fetchCount
             /\ ~effectDue')
       /\ error # NoError => (error' # NoError /\ View' # "page")]_vars

\* C11: a successful fetch whose page list is empty is a load failure: the
\* error screen is shown and no page of that document is rendered.
C11_EmptyListIsLoadFailure ==
    [][\A f \in fileFetches : FetchSucceed(f, <<>>) => View' = "error"]_vars

\* C12: one document fetch per load (mount or change of the id); page
\* navigation, block clicks, search responses and search failures issue none.
C12_OneFetchPerLoad ==
    /\ [](fetchCount = IF effectDue THEN loadCount - 1 ELSE loadCount)
    /\ [][(Previous \/ NextPage \/ BlockClicked \/ SearchSucceeds \/ SearchFails)
            => UNCHANGED <<fetchCount, fileFetches, effectDue>>]_vars

\* after navigation, two clicks, a search response and a search failure the
\* one load has issued one fetch
C12_Witness ==
    /\ lastOp = "SearchFail"
    /\ loadCount = 1
    /\ fetchCount = 1
    /\ currentPage = 1
    /\ clicks = 2
    /\ searchResults # NoResult

\* C13: a failed search request is recorded in the state of the viewer, so
\* that the failure can be told from the request still being pending.
C13_FailureRecorded ==
    [][\A r \in searches :
         SearchFail(r) =>
            <<clickedBlock, searchResults, error, loading, fileData, currentPage>>'
               # <<clickedBlock, searchResults, error, loading, fileData, currentPage>>]_vars

\* C14: a failed search request leaves the stored result, the document, the
\* page index and the load error as they were.
C14_FailureKeepsResult ==
    [][SearchFails => UNCHANGED <<searchResults, fileData, currentPage, error>>]_vars

\* a request failed while the result of an earlier click was stored
C14_Witness ==
    /\ lastOp = "SearchFail"
    /\ searchResults # NoResult
    /\ searchResults.token < clicks

C16_LatestResponseResolves ==
    [][\A r \in searches :
         (SearchSucceed(r) /\ r.token = clicks /\ r.page = currentPage) =>
            /\ searchResults' = ResultOf(r)
            /\ clickedBlock' = r.block
            /\ clickedBlock = r.block]_vars

\* the response to the latest click was stored
C16_Witness ==
    /\ lastOp = "SearchSucceed"
    /\ clicks = 2
    /\ searchResults.token = clicks
    /\ clickedBlock # NoBlock

\* ------------------------------------------------ claims on getBlockStyle
\* getBlockStyle has returned
Computed == lastOp = "getBlockStyle"

\* the number a is the fraction n/d
IsValue(a, n, d) == IsFinite(a) /\ a.num * d = n * a.den

\* least and greatest element of a set of integers
SetMin(S) == CHOOSE x \in S : \A y \in S : x <= y
SetMax(S) == CHOOSE x \in S : \A y \in S : x >= y
XsOf(box) == {box[k][1] : k \in 1 .. Len(box)}
YsOf(box) == {box[k][2] : k \in 1 .. Len(box)}

\* C17: for a polygon of at least one point and W,H > 0,
\* left = (minX-10)/W*100, top = (minY-10)/H*100,
\* width = (maxX-minX+20)/W*100, height = (maxY-minY+20)/H*100, unclamped;
\* [(10,10),(50,10),(50,40),(10,40)] on 100x100 gives 0%, 0%, 60%, 50%.
C17_StyleFormula ==
    (Computed /\ Len(boundingBox) >= 1) =>
        LET W == imageDimensions[1]
            H == imageDimensions[2]
            minX == SetMin(XsOf(boundingBox))
            maxX == SetMax(XsOf(boundingBox))
            minY == SetMin(YsOf(boundingBox))
            maxY == SetMax(YsOf(boundingBox))
        IN  /\ IsValue(style.left, (minX - 10) * 100, W)
            /\ IsValue(style.top, (minY - 10) * 100, H)
            /\ IsValue(style.width, (maxX - minX + 20) * 100, W)
            /\ IsValue(style.height, (maxY - minY + 20) * 100, H)
            /\ (boundingBox = BoxQ /\ W = 100 /\ H = 100) =>
                  style = [left |-> Num(0), top |-> Num(0),
                           width |-> Num(60), height |-> Num(50)]

\* the style of a polygon whose rectangle leaves the page on both sides:
\* left < 0 and left + width > 100
C17_Witness ==
    /\ Computed
    /\ Len(boundingBox) = 4
    /\ imageDimensions = <<50, 100>>
    /\ Less(style.left, Num(0))
    /\ Less(Num(100), Minus(style.width, Minus(Num(0), style.left)))

\* every point of the polygon is the same point
Degenerate(box) ==
    Len(box) >= 1 /\ \A k \in 1 .. Len(box) : box[k] = box[1]

\* C18 as stated: a polygon of identical points gives width = 0 and
\* height = 0, and no error.
C18_DegenerateZeroArea ==
    (Computed /\ Degenerate(boundingBox)) =>
        /\ style.width = Num(0)
        /\ style.height = Num(0)

\* C18 as amended: a polygon of identical points gives the rectangle of the
\* padding alone, width = 20/W*100 and height = 20/H*100, all four values
\* finite (no error).
C18_DegeneratePaddingOnly ==
    (Computed /\ Degenerate(boundingBox)) =>
        /\ IsValue(style.width, 20 * 100, imageDimensions[1])
        /\ IsValue(style.height, 20 * 100, imageDimensions[2])
        /\ IsFinite(style.left)
        /\ IsFinite(style.top)

\* the style of three identical points
C18_Witness ==
    /\ Computed
    /\ Len(boundingBox) = 3
    /\ Degenerate(boundingBox)

\* C19: with the polygon and H fixed, the style for page width W/2 has
\* twice the left and twice the width of the style for W, and the same top
\* and height; symmetrically for H.
C19_HalvingDoubles ==
    (Computed /\ Len(boundingBox) >= 1) =>
        LET W == imageDimensions[1]
            H == imageDimensions[2]
            halfW == getBlockStyle(boundingBox, <<W \div 2, H>>)
            halfH == getBlockStyle(boundingBox, <<W, H \div 2>>)
        IN  /\ W % 2 = 0 =>
                 /\ halfW.left = TimesInt(style.left, 2)
                 /\ halfW.width = TimesInt(style.width, 2)
                 /\ halfW.top = style.top
                 /\ halfW.height = style.height
            /\ H % 2 = 0 =>
                 /\ halfH.top = TimesInt(style.top, 2)
                 /\ halfH.height = TimesInt(style.height, 2)
                 /\ halfH.left = style.left
                 /\ halfH.width = style.width

\* the style of a polygon with a non-zero left on a 100x50 page
C19_Witness ==
    /\ Computed
    /\ imageDimensions = <<100, 50>>
    /\ Len(boundingBox) = 2
    /\ style.left # Num(0)
    /\ style.top # Num(0)

\* the style getBlockStyle gives region i of the current page
RegionStyle(i) ==
    getBlockStyle(At(currentPageData.text_blocks, i).bounding_box,
                  currentPageData.dimensions)

\* C20: a block whose bounding box is malformed (an empty point list) gets
\* no region: every region rendered on the page has a rectangle of four
\* finite percentages, and the page itself is rendered.
C20_MalformedBlockSkipped ==
    View = "page" =>
        \A i \in Regions :
            /\ At(currentPageData.text_blocks, i).bounding_box # <<>>
            /\ IsFinite(RegionStyle(i).left)
            /\ IsFinite(RegionStyle(i).top)
            /\ IsFinite(RegionStyle(i).width)
            /\ IsFinite(RegionStyle(i).height)

\* --------------------------------------------------- regions and selection
\* the indices of the text blocks of the current page
BlockIndices == 0 .. (Len(At(fileData.data, currentPage).text_blocks) - 1)

\* C21: while the page of a loaded document is shown, the rendered regions
\* are exactly the text blocks of the current page, one per block and keyed
\* by its index; a region is shown selected iff its index is the selected
\* block index, so at most one is; after a page change the regions are those
\* of the new page.
C21_RegionsAreCurrentBlocks ==
    /\ [](View = "page" =>
            /\ {r.key : r \in RenderedRegions} = BlockIndices
            /\ Cardinality(RenderedRegions) = Cardinality(BlockIndices)
            /\ \A r \in RenderedRegions :
                  /\ r.block = At(At(fileData.data, currentPage).text_blocks, r.key)
                  /\ r.selected <=> (r.key = clickedBlock)
            /\ Cardinality({r \in RenderedRegions : r.selected}) <= 1)
    /\ [][(currentPage' # currentPage /\ View' = "page") =>
            \A r \in RenderedRegions' :
               r.block = At(At(fileData'.data, currentPage').text_blocks, r.key)]_vars

\* Next has moved from the three blocks of the first page to the two of the
\* second, with block 0 selected
C21_Witness ==
    /\ lastOp = "Next"
    /\ View = "page"
    /\ currentPage = 1
    /\ clickedBlock = 0
    /\ Cardinality(RenderedRegions) = 2
    /\ \E r \in RenderedRegions : r.selected

\* C22: the installed document is written only at the completion of a
\* document fetch, each fetch completes once, and no block click, page
\* navigation, search response or search failure changes the document, its
\* pages, their dimensions or their text blocks.
C22_DocumentReadOnly ==
    /\ [][fileData' # fileData => DocSucceeds]_vars
    /\ [][\A f \in fileFetches : \A pages \in PageLists :
            FetchSucceed(f, pages) => f \notin fileFetches']_vars
    /\ [][(BlockClicked \/ Previous \/ NextPage \/ SearchSucceeds \/ SearchFails)
            => UNCHANGED fileData]_vars

\* a click, a navigation, a search response and a search failure have
\* happened on a two-page document, which is still installed
C22_Witness ==
    /\ lastOp = "SearchFail"
    /\ fileData.data = <<PageA, PageB>>
    /\ currentPage = 1
    /\ clicks = 2
    /\ searchResults # NoResult
    /\ searches = {}

\* C23: nothing is retried automatically: a failed document fetch and a
\* failed search request issue no request and schedule none, search requests
\* are issued by block clicks only and document fetches by the effect of a
\* load only, so searches issued <= clicks and fetches issued <= loads.
C23_NoAutomaticRetry ==
    /\ [](searchCount <= clicks /\ fetchCount <= loadCount)
    /\ [][(DocFails \/ SearchFails) =>
            /\ UNCHANGED <<fetchCount, searchCount, effectDue>>
            /\ fileFetches' \subseteq fileFetches
            /\ searches' \subseteq searches]_vars
    /\ [][searchCount' # searchCount => BlockClicked]_vars
    /\ [][fetchCount' # fetchCount => (FetchFileData /\ effectDue)]_vars

\* the fetch of the second load and a search request have both failed and
\* nothing is in flight or scheduled
C23_Witness ==
    /\ lastOp = "SearchFail"
    /\ error # NoError
    /\ loadCount = 2
    /\ fetchCount = 2
    /\ searchCount >= 1
    /\ ~effectDue
    /\ fileFetches = {}
    /\ searches = {}

\* C24: the selected block index is absent or a valid index of the text
\* blocks of the current page, and it changes only by a block click or a
\* page navigation.
C24_SelectionValid ==
    /\ [](View = "page" => (clickedBlock = NoBlock \/ clickedBlock \in BlockIndices))
    /\ [][clickedBlock' # clickedBlock => (BlockClicked \/ Previous \/ NextPage)]_vars

\* C25: whenever a result is stored while block i of the shown page is
\* selected, the result is the response to a request issued for i (its query
\* is the text of block i).
C25_ResultBelongsToSelection ==
    (View = "page" /\ clickedBlock \in BlockIndices /\ searchResults # NoResult) =>
        searchResults.query = At(At(fileData.data, currentPage).text_blocks, clickedBlock).text

\* ------------------------------------------------- claims on the dashboard
\* C26: View on item A, then View on item B before A's response: whichever
\* response arrives last, the open modal shows the file of the item whose
\* View was requested last, with the modal type set for that item.  Once the
\* file of the last request is shown, the response to an earlier View does
\* not replace it by the file of another item.
C26_LastViewWins ==
    [][\A v \in views :
         (ViewSucceed(v) /\ isModalOpen /\ modalContent.token = viewCount) =>
            /\ modalContent'.file_id = modalContent.file_id
            /\ modalType' = TypeOf(modalContent'.file_usage)]_vars

\* C27: closeModal leaves the modal closed with no content, no type and
\* loading false, and the response or failure of a View request that was in
\* flight when the modal was closed neither installs modal content nor
\* changes whether the modal is open.
C27_ClosedStaysClosed ==
    /\ [][closeModal =>
            (/\ ~isModalOpen'
             /\ modalContent' = NoContent
             /\ modalType' = NoType
             /\ ~isLoadingModal')]_vars
    /\ [][\A v \in views :
            (v.closed /\ (ViewSucceed(v) \/ ViewFail(v))) =>
               (modalContent' = modalContent /\ isModalOpen' = isModalOpen)]_vars

\* C28: isUploading is true exactly while at least one upload request is in
\* flight.
C28_UploadingWhileInFlight ==
    isUploading <=> (uploads # {})

\* C29: a successful upload puts exactly one item at the front of the
\* library list, with the file id the backend returned and the usage tag of
\* the upload, and keeps the existing items in their order; a failed upload
\* leaves the list unchanged.
C29_UploadPrepends ==
    /\ [][\A u \in uploads : \A file_id \in UploadIds :
            UploadSucceed(u, file_id) =>
               /\ Len(content') = Len(content) + 1
               /\ content'[1].id = file_id
               /\ content'[1].file_usage = u.file_usage
               /\ \A k \in 1 .. Len(content) : content'[k + 1] = content[k]]_vars
    /\ [][UploadFails => content' = content]_vars

\* an upload has succeeded on a library that held the video item
C29_Witness ==
    /\ lastOp = "UploadSucceed"
    /\ Len(content) = 2
    /\ content[1].id \in UploadIds
    /\ content[2] = ItemV

\* C30: the Create Notes button of an item is disabled exactly while a
\* notes-generation request for that item is in flight.
C30_GeneratingWhileInFlight ==
    \A item \in Items :
        Disabled(item) <=> (\E g \in generations : g.file_id = item.id)
====
